---- MODULE Spec2Model ----
(***************************************************************************)
(* A model of bookly.py (PDFQuizApp): the quiz session driven by the       *)
(* Start / Submit / End handlers and the 2-second threading.Timer, the     *)
(* score list with its JSON file, and the PDF load / extract handlers.     *)
(*                                                                         *)
(* Strings the code formats or parses (score records, entry fields, the    *)
(* score file) are sequences of one-character strings, so that formatting  *)
(* and parsing are computed and not assumed.  A text is abstracted to the  *)
(* lengths of its leading whitespace, its core (first to last character    *)
(* that is not whitespace) and its trailing whitespace, with the candidate *)
(* terms the language model finds in it.                                   *)
(***************************************************************************)
EXTENDS Integers, Sequences, FiniteSets, TLC

\* ------------------------------------------------------------------ bounds
MaxTarget == 2       \* largest quiz length the user types
MaxTimers == 2
\* longest score file, in tokens
MaxFileLen == 5       \* Timer objects created in one run of the application

\* ------------------------------------------------------- program constants
MinQuizTextLen == 200    \* start_quiz_clicked: len(text.strip()) < 200
MinCandidates == 4       \* generate_quiz_question: len(unique_entities) < 4
NumDistractors == 3      \* generate_quiz_question: random.sample(..., 3)

\* ------------------------------------------------------------------ strings
DigitChars == <<"0", "1", "2", "3", "4", "5", "6", "7", "8", "9">>

IsDigit(c) == \E i \in 1..10 : DigitChars[i] = c

DigitVal(c) == (CHOOSE i \in 1..10 : DigitChars[i] = c) - 1

\* str(n) / f"{n}" of an integer
RECURSIVE IntToStr(_)
IntToStr(n) ==
    IF n < 0 THEN <<"-">> \o IntToStr(0 - n)
    ELSE IF n < 10 THEN <<DigitChars[n + 1]>>
    ELSE IntToStr(n \div 10) \o <<DigitChars[(n % 10) + 1]>>

\* s.strip(): leading and trailing blanks removed
RECURSIVE LStrip(_)
LStrip(s) == IF s # <<>> /\ Head(s) = " " THEN LStrip(Tail(s)) ELSE s

RECURSIVE RStrip(_)
RStrip(s) ==
    IF s # <<>> /\ s[Len(s)] = " " THEN RStrip(SubSeq(s, 1, Len(s) - 1)) ELSE s

Strip(s) == RStrip(LStrip(s))

\* value of a sequence of digits, most significant first
RECURSIVE DigitsVal(_)
DigitsVal(s) ==
    IF s = <<>> THEN 0
    ELSE 10 * DigitsVal(SubSeq(s, 1, Len(s) - 1)) + DigitVal(s[Len(s)])

\* int(s): blanks around are ignored, an optional sign, then at least one
\* digit and nothing else; anything else raises ValueError (ok = FALSE)
ParseInt(s) ==
    LET t == Strip(s)
        signed == t # <<>> /\ Head(t) \in {"-", "+"}
        digits == IF signed THEN Tail(t) ELSE t
    IN  IF digits = <<>> \/ \E i \in 1..Len(digits) : ~IsDigit(digits[i])
        THEN [ok |-> FALSE, val |-> 0]
        ELSE [ok |-> TRUE,
              val |-> IF signed /\ Head(t) = "-" THEN 0 - DigitsVal(digits)
                      ELSE DigitsVal(digits)]

\* s.split('/')[0]: what precedes the first slash, all of s when it has none
RECURSIVE SplitFirst(_)
SplitFirst(s) ==
    IF s = <<>> \/ Head(s) = "/" THEN <<>>
    ELSE <<Head(s)>> \o SplitFirst(Tail(s))

\* f"{self.quiz_score} / {self.quiz_questions_asked}"
ScoreStr_Swapped(score, asked) ==
    IntToStr(asked) \o <<" ", "/", " ">> \o IntToStr(score)
ScoreStr(score, asked) == IntToStr(score) \o <<" ", "/", " ">> \o IntToStr(asked)

\* no quiz length was read: not a string of characters
NoEntry == <<"none">>

NoScore == <<>>                \* score_str = None
NA == <<"N", "/", "A">>        \* "N/A"

\* ---------------------------------------------------------------- JSON file
\* The score file is a sequence of tokens: "[", "]", "," and strings.
Tok(kind, v) == [t |-> kind, v |-> v]
LBracket == Tok("[", <<>>)
RBracket == Tok("]", <<>>)
Comma == Tok(",", <<>>)
StrTok(s) == Tok("str", s)

RECURSIVE JsonItems(_)
JsonItems(list) ==
    IF list = <<>> THEN <<>>
    ELSE IF Len(list) = 1 THEN <<StrTok(list[1])>>
    ELSE <<StrTok(list[1]), Comma>> \o JsonItems(Tail(list))

\* json.dump(self.scores, f, indent=4)
JsonDump_OnlyLast(list) ==
    <<LBracket>>
        \o (IF list = <<>> THEN <<>> ELSE <<StrTok(list[Len(list)])>>)
        \o <<RBracket>>
JsonDump(list) == <<LBracket>> \o JsonItems(list) \o <<RBracket>>

JsonError == [ok |-> FALSE, val |-> <<>>]

RECURSIVE JsonElems(_, _, _)
JsonElems(toks, i, acc) ==
    IF i + 1 > Len(toks) \/ toks[i].t # "str" THEN JsonError
    ELSE LET acc2 == Append(acc, toks[i].v) IN
         IF toks[i + 1].t = "]"
         THEN IF i + 1 = Len(toks) THEN [ok |-> TRUE, val |-> acc2] ELSE JsonError
         ELSE IF toks[i + 1].t = "," THEN JsonElems(toks, i + 2, acc2)
         ELSE JsonError

\* The JSON grammar over these tokens: a value is a string or an array of
\* values.  JsonValue and JsonArrayRest give the index after the value that
\* starts at i, 0 if there is none.
RECURSIVE JsonValue(_, _), JsonArrayRest(_, _)
JsonValue(toks, i) ==
    IF i > Len(toks) THEN 0
    ELSE IF toks[i].t = "str" THEN i + 1
    ELSE IF toks[i].t = "["
         THEN IF i + 1 <= Len(toks) /\ toks[i + 1].t = "]" THEN i + 2
              ELSE JsonArrayRest(toks, i + 1)
    ELSE 0

JsonArrayRest(toks, i) ==
    LET j == JsonValue(toks, i) IN
    IF j = 0 \/ j > Len(toks) THEN 0
    ELSE IF toks[j].t = "]" THEN j + 1
    ELSE IF toks[j].t = "," THEN JsonArrayRest(toks, j + 1)
    ELSE 0

\* the text is one JSON value: json.load raises no JSONDecodeError
WellFormed(toks) == JsonValue(toks, 1) = Len(toks) + 1

\* a lenient reader: the strings found, whatever stands between them
JsonLoad_Lenient(toks) ==
    [ok |-> TRUE,
     val |-> [i \in 1..Cardinality({k \in 1..Len(toks) : toks[k].t = "str"}) |->
                toks[CHOOSE k \in 1..Len(toks) :
                        /\ toks[k].t = "str"
                        /\ Cardinality({m \in 1..k : toks[m].t = "str"}) = i].v]]

\* json.load(f) of a file that holds an array of strings or is not JSON;
\* JSONDecodeError is ok = FALSE
JsonLoad(toks) ==
    IF Len(toks) < 2 \/ toks[1].t # "[" THEN JsonError
    ELSE IF toks[2].t = "]"
         THEN IF Len(toks) = 2 THEN [ok |-> TRUE, val |-> <<>>] ELSE JsonError
    ELSE JsonElems(toks, 2, <<>>)

\* -------------------------------------------------------------------- texts
\* A text: lengths of leading whitespace, core and trailing whitespace, and
\* what the language model finds in it: named entities of the accepted
\* labels, important nouns, significant words (already as stripped strings).
Text(lead, core, trail, ents, nouns, words) ==
    [lead |-> lead, core |-> core, trail |-> trail,
     ents |-> ents, nouns |-> nouns, words |-> words]

EmptyText == Text(0, 0, 0, {}, {}, {})

RawLen(t) == t.lead + t.core + t.trail

\* len(text.strip())
StripLenRaw(t) == RawLen(t)
StripLen(t) == t.core

\* a + b of two texts
Concat(a, b) ==
    IF a.core = 0 /\ b.core = 0
    THEN Text(RawLen(a) + RawLen(b), 0, 0, {}, {}, {})
    ELSE IF a.core = 0
    THEN Text(RawLen(a) + b.lead, b.core, b.trail, b.ents, b.nouns, b.words)
    ELSE IF b.core = 0
    THEN Text(a.lead, a.core, a.trail + RawLen(b), a.ents, a.nouns, a.words)
    ELSE Text(a.lead, a.core + a.trail + b.lead + b.core, b.trail,
              a.ents \cup b.ents, a.nouns \cup b.nouns, a.words \cup b.words)

\* "".join(list of page texts)
RECURSIVE JoinTexts(_)
JoinTexts(ts) ==
    IF ts = <<>> THEN EmptyText ELSE Concat(Head(ts), JoinTexts(Tail(ts)))

\* The files the user can name in the path field.
Cities == {"Paris", "Rome", "Oslo", "Bern"}

\* a.pdf: page 1 has four named entities but is short once stripped, page 2
\* is long enough but has three significant words only
PageA1 == Text(0, 150, 60, Cities, {"city"}, Cities \cup {"city"})
PageA2 == Text(10, 220, 0, {}, {"lake"}, {"lake", "blue", "deep"})

\* b.pdf: a blank page, then the pages of a.pdf the other way round
PageB1 == Text(5, 0, 0, {}, {}, {})

\* One-page documents for the tiers of generate_quiz_question:
\* c.pdf has five named entities (and four nouns), d.pdf three entities and
\* four important nouns, e.pdf too few of both and five significant words.
Nouns == {"city", "lake", "river", "coast"}
PageC1 == Text(0, 300, 0, Cities \cup {"Lima"}, Nouns, Nouns \cup {"blue"})
PageD1 == Text(0, 300, 0, {"Paris", "Rome", "Oslo"}, Nouns, Nouns \cup {"blue"})
PageE1 ==
    Text(0, 300, 0, {"Paris", "Rome"}, {"city", "lake"},
         {"city", "lake", "blue", "deep", "cold"})

Pdfs == {"a.pdf", "b.pdf", "c.pdf", "d.pdf", "e.pdf"}

PathInputs == {"", "missing.pdf", "notes.txt", "broken.pdf"} \cup Pdfs
PathExists(p) == p \in {"notes.txt", "broken.pdf"} \cup Pdfs
PathIsPdf(p) == p \in {"missing.pdf", "broken.pdf"} \cup Pdfs
PathOpens(p) == p \in Pdfs

DocPages(p) ==
    IF p = "a.pdf" THEN <<PageA1, PageA2>>
    ELSE IF p = "b.pdf" THEN <<PageB1, PageA2, PageA1>>
    ELSE IF p = "c.pdf" THEN <<PageC1>>
    ELSE IF p = "d.pdf" THEN <<PageD1>>
    ELSE IF p = "e.pdf" THEN <<PageE1>>
    ELSE <<>>

\* self.pdf_doc: None, or a document that is open or closed
NoDoc == [path |-> "", open |-> FALSE]
OpenDoc(p) == [path |-> p, open |-> TRUE]

\* range(start_page, end_page) for range(start_page, end_page + 1)
extract_text_from_pdf_EndExclusive(doc, start_page, end_page) ==
    JoinTexts(SubSeq(DocPages(doc.path), start_page, end_page - 1))

\* extract_text_from_pdf(pdf_doc, start_page, end_page)
extract_text_from_pdf(doc, start_page, end_page) ==
    JoinTexts(SubSeq(DocPages(doc.path), start_page, end_page))

\* ------------------------------------------------------ question generator
NoQuestion == [answer |-> "", choices |-> {}]

\* all tiers thrown together
Candidates_Pooled(t) == t.ents \cup t.nouns \cup t.words

\* the candidate list generate_quiz_question settles on
Candidates(t) ==
    IF Cardinality(t.ents) >= MinCandidates THEN t.ents
    ELSE IF Cardinality(t.nouns) >= MinCandidates THEN t.nouns
    ELSE t.words

\* the distractors sampled from all candidates, the answer among them
Questions_AnswerAmongDistractors(t) ==
    LET u == Candidates(t) IN
    IF t.core = 0 \/ Cardinality(u) < MinCandidates THEN {}
    ELSE {[answer |-> a, choices |-> d \cup {a}] :
            <<a, d>> \in {x \in u \X SUBSET u : Cardinality(x[2]) = NumDistractors}}

\* every question random.choice / random.sample / random.shuffle can give
Questions(t) ==
    LET u == Candidates(t) IN
    IF t.core = 0 \/ Cardinality(u) < MinCandidates THEN {}
    ELSE {[answer |-> a, choices |-> d \cup {a}] :
            <<a, d>> \in {x \in u \X SUBSET u :
                            /\ x[1] \notin x[2]
                            /\ Cardinality(x[2]) = NumDistractors}}

\* generate_quiz_question(text): every result a call can give. None comes
\* from too few candidates, and from any exception of the language model
generate_quiz_question(t) == Questions(t) \cup {NoQuestion}

\* -------------------------------------------------------------- score store
\* key=lambda s: int(s.split('/')[0].strip())
ScoreKey(s) == ParseInt(Strip(SplitFirst(s)))

\* get_highest_score(): max() keeps the first of equal keys; one record that
\* int() rejects raises ValueError and gives "N/A"
get_highest_score(list) ==
    IF list = <<>> THEN NA
    ELSE IF \E i \in 1..Len(list) : ~ScoreKey(list[i]).ok THEN NA
    ELSE list[CHOOSE i \in 1..Len(list) :
                /\ \A j \in 1..Len(list) : ScoreKey(list[j]).val <= ScoreKey(list[i]).val
                /\ \A j \in 1..(i - 1) : ScoreKey(list[j]).val < ScoreKey(list[i]).val]

\* the score file on disk
NoFile == [exists |-> FALSE, data |-> <<>>]
File(toks) == [exists |-> TRUE, data |-> toks]

\* --------------------------------------------------------------------- state
VARIABLES
    view,                    \* "main" or "quiz": what build_*_view put on the page
    pdf_doc,                 \* self.pdf_doc
    extract_disabled,        \* self.extract_button.disabled
    extracted_text_content,  \* self.extracted_text_content
    start_quiz_disabled,     \* self.start_quiz_button.disabled
    dialog,                  \* the dialog the last step opened, "none" if none
    num_questions_entry,     \* self.num_questions_entry.value as the last step's
                             \* start_quiz_clicked read it, NoEntry if it did not run
    scores,                  \* self.scores
    scores_file,             \* quiz_scores.json
    highest_score_label,     \* what update_score_display put after "Highest Score: "
    file_writable,           \* whether open(self.scores_file, "w") succeeds
    save_log,                \* save_scores in the last step: "none", "ok", "failed"
    max_questions,           \* self.max_questions
    quiz_score,              \* self.quiz_score
    quiz_questions_asked,    \* self.quiz_questions_asked
    quiz_submit_disabled,    \* self.quiz_submit_button.disabled
    quiz_choice_value,       \* self.quiz_choices_group.value ("" is None)
    quiz_choices,            \* the radio buttons of self.quiz_choices_group
    quiz_correct_answer,     \* self.quiz_correct_answer
    quiz_timer,              \* self.quiz_timer: 0 is None, else a Timer object
    timers,                  \* the Timer objects: unused, waiting, fired, over
    question_answered,       \* check_quiz_answer ran for the question on display
    choice_made,             \* the user clicked a choice since the question on
                             \* display was presented
    session,                 \* NotStarted, InProgress, or the reason the quiz finished
    session_records          \* records appended to self.scores since the quiz started

vars == <<view, pdf_doc, extract_disabled, extracted_text_content,
          start_quiz_disabled, dialog, num_questions_entry, scores, scores_file,
          file_writable,
          highest_score_label, save_log, max_questions, quiz_score, quiz_questions_asked,
          quiz_submit_disabled, quiz_choice_value, quiz_choices,
          quiz_correct_answer, quiz_timer, timers, question_answered,
          choice_made,
          session, session_records>>

\* the application state as one record, which the handlers map to the next
State ==
    [view |-> view, pdf_doc |-> pdf_doc, extract_disabled |-> extract_disabled,
     extracted_text_content |-> extracted_text_content,
     start_quiz_disabled |-> start_quiz_disabled, dialog |-> dialog,
     num_questions_entry |-> num_questions_entry,
     scores |-> scores, scores_file |-> scores_file,
     file_writable |-> file_writable,
     highest_score_label |-> highest_score_label, save_log |-> save_log,
     max_questions |-> max_questions, quiz_score |-> quiz_score,
     quiz_questions_asked |-> quiz_questions_asked,
     quiz_submit_disabled |-> quiz_submit_disabled,
     quiz_choice_value |-> quiz_choice_value, quiz_choices |-> quiz_choices,
     quiz_correct_answer |-> quiz_correct_answer, quiz_timer |-> quiz_timer,
     timers |-> timers, question_answered |-> question_answered,
     choice_made |-> choice_made,
     session |-> session, session_records |-> session_records]

Becomes(s) ==
    /\ view' = s.view
    /\ pdf_doc' = s.pdf_doc
    /\ extract_disabled' = s.extract_disabled
    /\ extracted_text_content' = s.extracted_text_content
    /\ start_quiz_disabled' = s.start_quiz_disabled
    /\ dialog' = s.dialog
    /\ num_questions_entry' = s.num_questions_entry
    /\ scores' = s.scores
    /\ scores_file' = s.scores_file
    /\ file_writable' = s.file_writable
    /\ highest_score_label' = s.highest_score_label
    /\ save_log' = s.save_log
    /\ max_questions' = s.max_questions
    /\ quiz_score' = s.quiz_score
    /\ quiz_questions_asked' = s.quiz_questions_asked
    /\ quiz_submit_disabled' = s.quiz_submit_disabled
    /\ quiz_choice_value' = s.quiz_choice_value
    /\ quiz_choices' = s.quiz_choices
    /\ quiz_correct_answer' = s.quiz_correct_answer
    /\ quiz_timer' = s.quiz_timer
    /\ timers' = s.timers
    /\ question_answered' = s.question_answered
    /\ choice_made' = s.choice_made
    /\ session' = s.session
    /\ session_records' = s.session_records

\* -------------------------------------------------------------------- timers
TimerIds == 1..MaxTimers

\* Timer.cancel(): stops a timer that still waits; one that has fired runs on
CancelNothing(tm, t) == tm
Cancel(tm, t) ==
    IF t # 0 /\ tm[t] = "waiting" THEN [tm EXCEPT ![t] = "over"] ELSE tm

\* Timer objects not yet created
FreeTimers(tm) == {t \in TimerIds : tm[t] = "unused"}

\* ------------------------------------------------------------ score handlers
\* save_scores(): when open() raises IOError the error is printed and the
\* file is left as it was
save_scores(s) ==
    IF s.file_writable
    THEN [s EXCEPT !.scores_file = File(JsonDump(s.scores)), !.save_log = "ok"]
    ELSE [s EXCEPT !.save_log = "failed"]

update_score_display(s) ==
    [s EXCEPT !.highest_score_label = get_highest_score(s.scores)]

\* load_scores(): a missing file gives [], a file json.load rejects gives []
\* without refreshing the display
load_scores(s) ==
    IF ~s.scores_file.exists
    THEN update_score_display([s EXCEPT !.scores = <<>>])
    ELSE IF JsonLoad(s.scores_file.data).ok
    THEN update_score_display([s EXCEPT !.scores = JsonLoad(s.scores_file.data).val])
    ELSE [s EXCEPT !.scores = <<>>]

build_main_view(s) == [s EXCEPT !.view = "main"]

handle_quiz_end_NoAppend(s, final_score) == build_main_view(s)
handle_quiz_end(s, final_score) ==
    IF final_score # NoScore
    THEN build_main_view(update_score_display(save_scores(
            [s EXCEPT !.scores = Append(s.scores, final_score),
                      !.session_records = s.session_records + 1])))
    ELSE build_main_view(s)

\* ------------------------------------------------------------- quiz handlers
\* end_quiz_clicked(): reason is the path that led here, for the record of
\* why the session finished
end_quiz_clicked(s, reason) ==
    LET s1 == [s EXCEPT !.timers = Cancel(s.timers, s.quiz_timer),
                        !.quiz_timer = 0]
        score_str == IF s.quiz_questions_asked > 0
                     THEN ScoreStr(s.quiz_score, s.quiz_questions_asked)
                     ELSE NoScore
    IN  [handle_quiz_end(s1, score_str) EXCEPT !.session = reason]

show_error_dialog(s, message) == [s EXCEPT !.dialog = message]

\* if self.quiz_questions_asked >= self.max_questions
GoalReached_Strict(asked, goal) == asked > goal
GoalReached(asked, goal) == asked >= goal

\* generate_and_display_mcq(): question_data is what generate_quiz_question
\* returns on this call
generate_and_display_mcq(s, question_data) ==
    IF GoalReached(s.quiz_questions_asked, s.max_questions)
    THEN end_quiz_clicked(show_error_dialog(s, "Quiz Finished!"), "GoalReached")
    ELSE LET s1 == [s EXCEPT !.quiz_submit_disabled = FALSE]
         IN  IF question_data # NoQuestion
             THEN [s1 EXCEPT !.quiz_choices = question_data.choices,
                             !.quiz_correct_answer = question_data.answer,
                             !.question_answered = FALSE,
                             !.choice_made = FALSE]
             ELSE end_quiz_clicked(
                      show_error_dialog(s1, "Quiz Content Exhausted"),
                      "ContentExhausted")

\* build_quiz_view(): new widgets, so a new radio group and an enabled button
build_quiz_view(s) ==
    [s EXCEPT !.view = "quiz", !.quiz_submit_disabled = FALSE,
              !.quiz_choice_value = "", !.quiz_choices = {},
              !.question_answered = FALSE, !.choice_made = FALSE]

start_quiz_clicked(s0, entry, question_data) ==
    LET s == [s0 EXCEPT !.num_questions_entry = entry] IN
    IF StripLen(s.extracted_text_content) < MinQuizTextLen
    THEN show_error_dialog(s, "Please extract more text for a good quiz.")
    ELSE LET num_q == ParseInt(entry) IN
         IF ~num_q.ok \/ num_q.val <= 0
         THEN show_error_dialog(s, "Please enter a valid, positive number for the quiz length.")
         ELSE generate_and_display_mcq(
                  build_quiz_view(
                      [s EXCEPT !.max_questions = num_q.val,
                                !.quiz_score = 0,
                                !.quiz_questions_asked = 0,
                                !.session = "InProgress",
                                !.session_records = 0]),
                  question_data)

\* the Timer object check_quiz_answer creates
NewTimer(tm) == CHOOSE t \in FreeTimers(tm) : \A u \in FreeTimers(tm) : t <= u

check_quiz_answer_KeepsEnabled(s) ==
    LET tm == Cancel(s.timers, s.quiz_timer)
        t == NewTimer(tm)
    IN  [s EXCEPT !.question_answered = TRUE,
                  !.quiz_questions_asked = s.quiz_questions_asked + 1,
                  !.quiz_score = IF s.quiz_choice_value = s.quiz_correct_answer
                                 THEN s.quiz_score + 1 ELSE s.quiz_score,
                  !.timers = [tm EXCEPT ![t] = "waiting"],
                  !.quiz_timer = t]
check_quiz_answer(s) ==
    LET tm == Cancel(s.timers, s.quiz_timer)
        t == NewTimer(tm)
    IN  [s EXCEPT !.quiz_submit_disabled = TRUE,
                  !.question_answered = TRUE,
                  !.quiz_questions_asked = s.quiz_questions_asked + 1,
                  !.quiz_score = IF s.quiz_choice_value = s.quiz_correct_answer
                                 THEN s.quiz_score + 1 ELSE s.quiz_score,
                  !.timers = [tm EXCEPT ![t] = "waiting"],
                  !.quiz_timer = t]

\* ------------------------------------------------------------- file handlers
\* load_from_path_clicked(): close_raises is whether closing a document that
\* is already closed raises inside the try block
load_from_path_clicked(s, path, close_raises) ==
    IF path = "" THEN show_error_dialog(s, "Please enter a file path.")
    ELSE IF ~PathExists(path) THEN show_error_dialog(s, "File not found")
    ELSE IF ~PathIsPdf(path) THEN show_error_dialog(s, "Please select a PDF file.")
    ELSE IF s.pdf_doc # NoDoc /\ ~s.pdf_doc.open /\ close_raises
    THEN show_error_dialog(s, "Failed to read PDF")
    ELSE LET s1 == IF s.pdf_doc # NoDoc
                   THEN [s EXCEPT !.pdf_doc.open = FALSE] ELSE s
         IN  IF PathOpens(path)
             THEN [s1 EXCEPT !.pdf_doc = OpenDoc(path), !.extract_disabled = FALSE]
             ELSE show_error_dialog(s1, "Failed to read PDF")

page_count(doc) == Len(DocPages(doc.path))

\* What using a closed document does is the library's affair: the truth test
\* of line 649 raises out of the handler ("raises"), or page_count raises
\* ValueError or another exception inside the try block.
ClosedDocOutcomes == {"raises", "ValueError", "Exception"}

extract_text_clicked(s, start_entry, end_entry, closed_doc) ==
    IF s.pdf_doc = NoDoc THEN s
    ELSE IF ~s.pdf_doc.open /\ closed_doc = "raises" THEN s
    ELSE LET start == ParseInt(start_entry)
             end == ParseInt(end_entry)
         IN  IF ~start.ok \/ ~end.ok
             THEN show_error_dialog(s, "Please enter valid page numbers.")
             ELSE IF ~s.pdf_doc.open
             THEN IF closed_doc = "ValueError"
                  THEN show_error_dialog(s, "Please enter valid page numbers.")
                  ELSE show_error_dialog(s, "Extraction failed")
             ELSE IF ~(1 <= start.val /\ start.val <= end.val
                       /\ end.val <= page_count(s.pdf_doc))
             THEN show_error_dialog(s, "Page range must be 1-n.")
             ELSE LET full_text ==
                          extract_text_from_pdf(s.pdf_doc, start.val, end.val)
                  IN  [s EXCEPT !.extracted_text_content = full_text,
                                !.start_quiz_disabled = (StripLen(full_text) = 0)]

\* ------------------------------------------------------------ initial state
\* PDFQuizApp.__init__ with the score file as it is on disk
NewApp(file, writable) ==
    load_scores(
        [view |-> "main", pdf_doc |-> NoDoc, extract_disabled |-> TRUE,
         extracted_text_content |-> EmptyText, start_quiz_disabled |-> TRUE,
         dialog |-> "none", num_questions_entry |-> NoEntry,
         scores |-> <<>>, scores_file |-> file,
         file_writable |-> writable,
         highest_score_label |-> NA, save_log |-> "none",
         max_questions |-> 0, quiz_score |-> 0, quiz_questions_asked |-> 0,
         quiz_submit_disabled |-> TRUE, quiz_choice_value |-> "",
         quiz_choices |-> {}, quiz_correct_answer |-> "", quiz_timer |-> 0,
         timers |-> [t \in TimerIds |-> "unused"],
         question_answered |-> FALSE, choice_made |-> FALSE,
         session |-> "NotStarted", session_records |-> 0])

Starts(s) ==
    /\ view = s.view
    /\ pdf_doc = s.pdf_doc
    /\ extract_disabled = s.extract_disabled
    /\ extracted_text_content = s.extracted_text_content
    /\ start_quiz_disabled = s.start_quiz_disabled
    /\ dialog = s.dialog
    /\ num_questions_entry = s.num_questions_entry
    /\ scores = s.scores
    /\ scores_file = s.scores_file
    /\ file_writable = s.file_writable
    /\ highest_score_label = s.highest_score_label
    /\ save_log = s.save_log
    /\ max_questions = s.max_questions
    /\ quiz_score = s.quiz_score
    /\ quiz_questions_asked = s.quiz_questions_asked
    /\ quiz_submit_disabled = s.quiz_submit_disabled
    /\ quiz_choice_value = s.quiz_choice_value
    /\ quiz_choices = s.quiz_choices
    /\ quiz_correct_answer = s.quiz_correct_answer
    /\ quiz_timer = s.quiz_timer
    /\ timers = s.timers
    /\ question_answered = s.question_answered
    /\ choice_made = s.choice_made
    /\ session = s.session
    /\ session_records = s.session_records

\* the application after a.pdf was loaded and pages a..b extracted
Extracted(f, w, a, b) ==
    extract_text_clicked(load_from_path_clicked(NewApp(f, w), "a.pdf", FALSE),
                         IntToStr(a), IntToStr(b), "raises")

PageRanges == {<<1, 1>>, <<1, 2>>, <<2, 2>>}

\* ------------------------------------------------------------------- actions
\* the choices the user clicks
UserPicks == {"Paris", "Rome"}

QuizLengthInputs ==
    {IntToStr(n) : n \in 0..MaxTarget} \cup {<<"-", "1">>, <<"a">>}

PageEntryInputs == {IntToStr(n) : n \in 0..4} \cup {<<"x">>}

\* Widgets of a quiz view that build_main_view took off the page can be
\* neither seen nor clicked, no handler reads them, and the next
\* build_quiz_view replaces them; self.quiz_correct_answer is read by
\* check_quiz_answer only, which runs in a quiz view, where
\* generate_and_display_mcq has assigned it anew.  States that differ in
\* these only are one state.
OffPage(s) ==
    IF s.view = "main"
    THEN [s EXCEPT !.quiz_submit_disabled = TRUE, !.quiz_choice_value = "",
                   !.quiz_choices = {}, !.question_answered = FALSE,
                   !.choice_made = FALSE,
                   !.quiz_correct_answer = ""]
    ELSE s

Step(s) == Becomes(OffPage(s))

\* the state a handler starts from: what the step before showed is history
Now ==
    [State EXCEPT !.dialog = "none", !.save_log = "none",
                  !.num_questions_entry = NoEntry]

StartQuiz ==
    /\ view = "main"
    /\ ~start_quiz_disabled
    /\ \E entry \in QuizLengthInputs,
          question_data \in generate_quiz_question(extracted_text_content) :
          Step(start_quiz_clicked(Now, entry, question_data))

SelectChoice ==
    /\ view = "quiz"
    /\ \E c \in quiz_choices \cap UserPicks : 
          Step([Now EXCEPT !.quiz_choice_value = c, !.choice_made = TRUE])

SubmitAnswer ==
    /\ view = "quiz"
    /\ ~quiz_submit_disabled
    /\ FreeTimers(timers) # {}
    /\ Step(check_quiz_answer(Now))

EndQuiz ==
    /\ view = "quiz"
    /\ Step(end_quiz_clicked(Now, "UserEnded"))

\* Timer.run(): the 2 seconds are over and the timer was not cancelled
TimerExpire ==
    \E t \in TimerIds :
        /\ timers[t] = "waiting"
        /\ Step([Now EXCEPT !.timers[t] = "fired"])

\* Timer.run() calls generate_and_display_mcq
TimerCallback ==
    \E t \in TimerIds :
        /\ timers[t] = "fired"
        /\ \E question_data \in generate_quiz_question(extracted_text_content) :
              Step(generate_and_display_mcq(
                       [Now EXCEPT !.timers[t] = "over"], question_data))

LoadFromPath ==
    /\ view = "main"
    /\ \E path \in PathInputs, close_raises \in BOOLEAN :
          Step(load_from_path_clicked(Now, path, close_raises))

ExtractText ==
    /\ view = "main"
    /\ ~extract_disabled
    /\ \E a \in PageEntryInputs, b \in PageEntryInputs,
          closed_doc \in ClosedDocOutcomes :
          Step(extract_text_clicked(Now, a, b, closed_doc))

\* the application is closed and started again
Restart == Step(NewApp(scores_file, file_writable))

\* The quiz and the score store: the application with a text extracted.
Init == \E r \in PageRanges : Starts(Extracted(NoFile, TRUE, r[1], r[2]))

Next ==
    \/ StartQuiz
    \/ SelectChoice
    \/ SubmitAnswer
    \/ EndQuiz
    \/ TimerExpire
    \/ TimerCallback
    \/ Restart

Spec == Init /\ [][Next]_vars

\* The score store: the same application, started on score files that hold
\* records already, with a disk that takes the file or does not.
StoreCases ==
    {<<File(JsonDump(<<(<<"a", "b">>)>>)), TRUE>>,
     <<File(JsonDump(<<(<<"a", "b">>)>>)), FALSE>>,
     <<File(JsonDump(<<ScoreStr(2, 5), ScoreStr(4, 5), ScoreStr(1, 5)>>)), TRUE>>}

StoreInit == \E c \in StoreCases : Starts(Extracted(c[1], c[2], 1, 2))

StoreSpec == StoreInit /\ [][Next]_vars

\* Quizzes on the texts of all the documents: questions are generated and
\* shown, none is answered.
ExtractedFrom(path, a, b) ==
    extract_text_clicked(load_from_path_clicked(NewApp(NoFile, TRUE), path, FALSE),
                         IntToStr(a), IntToStr(b), "raises")

GenInit ==
    \E path \in Pdfs :
        \E a \in 1..page_count(OpenDoc(path)) :
            \E b \in a..page_count(OpenDoc(path)) :
                Starts(ExtractedFrom(path, a, b))

GenNext ==
    \/ StartQuiz
    \/ SelectChoice
    \/ EndQuiz

GenSpec == GenInit /\ [][GenNext]_vars

\* Loading documents and extracting page ranges, from a fresh application.
FileInit == Starts(NewApp(NoFile, TRUE))

FileNext ==
    \/ LoadFromPath
    \/ ExtractText
    \/ Restart

FileSpec == FileInit /\ [][FileNext]_vars

\* The score file as the application finds it when it starts.
FileToks == {LBracket, RBracket, Comma, StrTok(ScoreStr(1, 1))}

TokSeqs == UNION {[1..n -> FileToks] : n \in 0..MaxFileLen}

\* What quiz_scores.json holds: what save_scores wrote (an array of strings),
\* or a text that is not JSON.  Other JSON values (a string alone, arrays in
\* arrays) are written by no run of the application and are left out.
ScoreFiles ==
    {NoFile} \cup {File(toks) : toks \in {t \in TokSeqs : JsonLoad(t).ok \/ ~WellFormed(t)}}

\* a write that was cut short left a prefix of the file
FileTruncated ==
    /\ scores_file.exists
    /\ \E k \in 0..(Len(scores_file.data) - 1) :
          Step([Now EXCEPT !.scores_file = File(SubSeq(scores_file.data, 1, k))])

FileDeleted ==
    /\ scores_file.exists
    /\ Step([Now EXCEPT !.scores_file = NoFile])

LoadInit == \E f \in ScoreFiles : Starts(NewApp(f, TRUE))

LoadNext ==
    \/ FileTruncated
    \/ FileDeleted
    \/ Restart

LoadSpec == LoadInit /\ [][LoadNext]_vars

\* -------------------------------------------------------------------- claims
Finished == session \in {"GoalReached", "ContentExhausted", "UserEnded"}

\* a step in which a fired timer runs its callback
CallbackStep == \E t \in TimerIds : timers[t] = "fired" /\ timers'[t] = "over"

WaitingTimers == {t \in TimerIds : timers[t] = "waiting"}

\* s.split('/')[1:] joined: what follows the first slash of a record
RECURSIVE AfterFirstSlash(_)
AfterFirstSlash(s) ==
    IF s = <<>> THEN <<>>
    ELSE IF Head(s) = "/" THEN Tail(s)
    ELSE AfterFirstSlash(Tail(s))

\* C1: a finished session with questionsAsked > 0 has appended exactly one
\* record, "{score} / {questionsAsked}", and one with questionsAsked = 0 has
\* appended none, whatever the order of End Quiz and the timer's callback.
C1_OneRecordPerFinish ==
    Finished =>
        /\ session_records = (IF quiz_questions_asked > 0 THEN 1 ELSE 0)
        /\ quiz_questions_asked > 0 =>
              /\ scores # <<>>
              /\ scores[Len(scores)] = ScoreStr(quiz_score, quiz_questions_asked)

\* C2: once the question on display has been answered, nothing changes score
\* or questionsAsked while the quiz stays on the page, until the next question
\* is presented.
C2_NoDoubleSubmit ==
    [][(view = "quiz" /\ question_answered /\ view' = "quiz")
        => (quiz_score' = quiz_score
            /\ quiz_questions_asked' = quiz_questions_asked)]_vars

C2_Witness ==
    /\ view = "quiz"
    /\ question_answered
    /\ quiz_submit_disabled
    /\ quiz_questions_asked = 1
    /\ quiz_score = 1

\* C3: questionsAsked never exceeds the target N, an answer can be submitted
\* only while fewer than N were asked, a session that finished with
\* GoalReached has questionsAsked = N, and the callback that runs in a quiz in
\* progress after N answers finishes it with GoalReached.
C3_Bounded ==
    /\ quiz_questions_asked <= max_questions
    /\ (view = "quiz" /\ ~quiz_submit_disabled) => quiz_questions_asked < max_questions
    /\ session = "GoalReached" => (quiz_questions_asked = max_questions /\ max_questions > 0)

C3_ExactlyN ==
    /\ []C3_Bounded
    /\ [][(CallbackStep /\ session = "InProgress"
            /\ quiz_questions_asked = max_questions)
          => (session' = "GoalReached" /\ view' = "main"
              /\ quiz_questions_asked' = max_questions)]_vars

C3_Witness ==
    /\ session = "GoalReached"
    /\ max_questions = 2
    /\ quiz_questions_asked = 2
    /\ session_records = 1
    /\ dialog = "Quiz Finished!"

\* C4: in a quiz in progress with k < N answers, the callback either presents
\* a question or, generation having failed, finishes the quiz with
\* ContentExhausted: the summary dialog opens, no question is presented and
\* the record "{score} / k" is appended (k >= 1 there); a quiz whose first
\* generation fails finishes with ContentExhausted and no record.
C4_Presented ==
    /\ view' = "quiz"
    /\ session' = "InProgress"
    /\ ~quiz_submit_disabled'
    /\ quiz_correct_answer' \in quiz_choices'
    /\ scores' = scores

C4_Exhausted ==
    /\ view' = "main"
    /\ session' = "ContentExhausted"
    /\ dialog' = "Quiz Content Exhausted"
    /\ quiz_questions_asked' = quiz_questions_asked
    /\ quiz_score' = quiz_score
    /\ scores' = IF quiz_questions_asked >= 1
                 THEN Append(scores, ScoreStr(quiz_score, quiz_questions_asked))
                 ELSE scores

C4_ContentExhausted ==
    /\ [][(CallbackStep /\ view = "quiz"
            /\ quiz_questions_asked < max_questions)
          => (C4_Presented \/ C4_Exhausted)]_vars
    /\ [][(view = "main" /\ ~CallbackStep
            /\ dialog' = "Quiz Content Exhausted")
          => (view' = "main" /\ session' = "ContentExhausted"
              /\ quiz_questions_asked' = 0 /\ scores' = scores)]_vars

C4_Witness ==
    /\ session = "ContentExhausted"
    /\ max_questions = 2
    /\ quiz_questions_asked = 1
    /\ session_records = 1
    /\ scores = <<ScoreStr(quiz_score, 1)>>

\* C5: Start Quiz on a text shorter than 200 characters once stripped opens
\* the insufficient-text dialog, and on a longer text with a quiz length that
\* is not a positive integer the invalid-length dialog; both leave the
\* session, score, questionsAsked, the target and the score store as they
\* were.  Otherwise score and questionsAsked are 0, the target is the number
\* typed, and the session is in progress (finished with ContentExhausted if
\* the first generation failed).
C5_Unchanged ==
    /\ view' = "main"
    /\ session' = session
    /\ quiz_score' = quiz_score
    /\ quiz_questions_asked' = quiz_questions_asked
    /\ max_questions' = max_questions
    /\ scores' = scores
    /\ scores_file' = scores_file

C5_Outcome ==
    IF extracted_text_content.core < MinQuizTextLen
    THEN dialog' = "Please extract more text for a good quiz." /\ C5_Unchanged
    ELSE IF \A n \in 1..MaxTarget : num_questions_entry' # IntToStr(n)
    THEN /\ dialog' = "Please enter a valid, positive number for the quiz length."
         /\ C5_Unchanged
    ELSE /\ quiz_score' = 0
         /\ quiz_questions_asked' = 0
         /\ IntToStr(max_questions') = num_questions_entry'
         /\ session' \in {"InProgress", "ContentExhausted"}
         /\ session' = "InProgress" <=> view' = "quiz"

C5_StartPreconditions ==
    [][num_questions_entry' # NoEntry => C5_Outcome]_vars

C5_Witness ==
    /\ num_questions_entry = IntToStr(2)
    /\ dialog = "Please extract more text for a good quiz."
    /\ session = "NotStarted"
    /\ RawLen(extracted_text_content) >= MinQuizTextLen

\* C6: 0 <= score <= questionsAsked in every state, and every record of the
\* score list, all of them appended by a quiz, reads "c / a" with c <= a.
C6_ScoreWithinAsked ==
    /\ 0 <= quiz_score
    /\ quiz_score <= quiz_questions_asked
    /\ \A i \in 1..Len(scores) :
          LET c == ScoreKey(scores[i])
              a == ParseInt(AfterFirstSlash(scores[i]))
          IN  c.ok /\ a.ok /\ 0 <= c.val /\ c.val <= a.val

C6_Witness ==
    /\ session = "GoalReached"
    /\ quiz_score = 1
    /\ quiz_questions_asked = 2
    /\ scores = <<ScoreStr(1, 2)>>

\* C7: after the user ended a quiz, no timer callback of it runs.
C7_EndCancelsAdvance ==
    [][(session = "UserEnded" /\ view = "main") => ~CallbackStep]_vars

C9_RoundTrip ==
    [][save_log' = "ok"
        => /\ NewApp(scores_file', TRUE).scores
                = Append(scores, ScoreStr(quiz_score, quiz_questions_asked))
           /\ scores' = Append(scores, ScoreStr(quiz_score, quiz_questions_asked))]_vars

C9_Witness ==
    /\ save_log = "ok"
    /\ Len(scores) = 2
    /\ scores[1] = <<"a", "b">>
    /\ NewApp(scores_file, TRUE).scores = scores

\* C10: the highest score shown is N/A when no record has a numeric correct
\* part, and otherwise a record whose correct part is the largest among the
\* records that have one.
C10_Parseable == {i \in 1..Len(scores) : ScoreKey(scores[i]).ok}

C10_HighestIsBestParseable ==
    IF C10_Parseable = {} THEN highest_score_label = NA
    ELSE \E i \in C10_Parseable :
            /\ highest_score_label = scores[i]
            /\ \A j \in C10_Parseable : ScoreKey(scores[j]).val <= ScoreKey(scores[i]).val

\* C11: starting the application on a score file that is absent or is not
\* JSON loads the empty list and shows the main view: nothing of the corrupt
\* file reaches the score list or the highest score, and the application runs.
C11_Unreadable ==
    ~scores_file.exists \/ ~WellFormed(scores_file.data)

RECURSIVE C12_PagesInOrder(_, _, _)
C12_PagesInOrder(pages, a, b) ==
    IF a = b THEN pages[a]
    ELSE Concat(C12_PagesInOrder(pages, a, b - 1), pages[b])

C12_ExtractStep(a, b) ==
    /\ view = "main"
    /\ ~extract_disabled
    /\ pdf_doc.open
    /\ Becomes(OffPage(extract_text_clicked(Now, IntToStr(a), IntToStr(b), "raises")))

C12_Outcome(a, b) ==
    IF 1 <= a /\ a <= b /\ b <= Len(DocPages(pdf_doc.path))
    THEN /\ extracted_text_content' = C12_PagesInOrder(DocPages(pdf_doc.path), a, b)
         /\ dialog' = "none"
    ELSE /\ dialog' = "Page range must be 1-n."
         /\ extracted_text_content' = extracted_text_content
         /\ start_quiz_disabled' = start_quiz_disabled

C12_ExtractRange ==
    [][\A a \in 0..4, b \in 0..4 : C12_ExtractStep(a, b) => C12_Outcome(a, b)]_vars

C12_Witness ==
    /\ pdf_doc = OpenDoc("b.pdf")
    /\ extracted_text_content = Concat(PageA2, PageA1)
    /\ dialog = "Page range must be 1-n."

\* C13: every question on display has exactly 4 choices, pairwise distinct,
\* and its correct answer is one of them.
C13_FourDistinctChoices ==
    (view = "quiz" /\ session = "InProgress")
        => /\ Cardinality(quiz_choices) = MinCandidates
           /\ quiz_correct_answer \in quiz_choices
           /\ Cardinality(quiz_choices \ {quiz_correct_answer}) = NumDistractors

C13_Witness ==
    /\ view = "quiz"
    /\ extracted_text_content = PageC1
    /\ quiz_correct_answer = "Lima"
    /\ quiz_choices = {"Lima", "Paris", "Oslo", "Bern"}

\* C14: the choices of a question all come from the first tier (named
\* entities, important nouns, significant words) that holds at least 4
\* candidates, and a text none of whose tiers holds 4 gets no question: the
\* quiz ends with ContentExhausted.
C14_Tier(t) ==
    IF Cardinality(t.ents) >= 4 THEN t.ents
    ELSE IF Cardinality(t.nouns) >= 4 THEN t.nouns
    ELSE IF Cardinality(t.words) >= 4 THEN t.words
    ELSE {}

C14_TierPriority ==
    /\ (view = "quiz" /\ session = "InProgress")
          => /\ quiz_choices # {}
             /\ quiz_choices \subseteq C14_Tier(extracted_text_content)
    /\ C14_Tier(extracted_text_content) = {}
          => /\ view = "main"
             /\ session \in {"NotStarted", "ContentExhausted"}
             /\ dialog \in {"none", "Quiz Content Exhausted",
                             "Please extract more text for a good quiz.",
                             "Please enter a valid, positive number for the quiz length."}

C14_Witness ==
    /\ view = "quiz"
    /\ extracted_text_content = PageD1
    /\ quiz_choices = Nouns

C14_WitnessNone ==
    /\ extracted_text_content = PageA2
    /\ session = "ContentExhausted"
    /\ dialog = "Quiz Content Exhausted"

\* C15: the document the application holds is open: self.pdf_doc is None or
\* an open document, and while Extract Text is enabled it is an open document.
C15_HandleAbsentOrOpen ==
    /\ pdf_doc # NoDoc => pdf_doc.open
    /\ ~extract_disabled => (pdf_doc # NoDoc /\ pdf_doc.open)

\* C16: an answer counts as correct only if the user clicked a choice while
\* the question on display was shown: a submission with no click since the
\* question was presented leaves the score as it was.
C16_SubmitStep ==
    /\ view = "quiz"
    /\ ~quiz_submit_disabled
    /\ quiz_questions_asked' = quiz_questions_asked + 1

C16_NoCarriedSelection ==
    [][(C16_SubmitStep /\ ~choice_made) => quiz_score' = quiz_score]_vars

====
